---- MODULE Spec2Model ----
(***************************************************************************)
(* Model of the combiner merge pipeline (src/src/combiner/combiner.py):    *)
(* create_manifest -> process_paths (sort, one loop iteration per manifest *)
(* entry, each calling split_xml / get_matches) -> create_new_sig_file.    *)
(*                                                                         *)
(* XML elements are heap nodes (minidom elements are mutated in place and  *)
(* reparented by appendChild), so a node is named by the manifest index of *)
(* its file, its collection and its position in that collection.           *)
(***************************************************************************)
EXTENDS Integers, Sequences, FiniteSets, TLC

(* ------------------------------ bounds -------------------------------- *)
\* number of files found under --path
MaxFiles == 3
\* largest number of InternalSignature / FileFormat elements in one document
MaxSigs == 2

\* original identifiers used inside the input documents
OrigIds == {"1", "2"}
\* values of --prefix and --start-index: the defaults (lines 232, 239) and
\* a custom pair
DefaultFlags == << "ffdev", 1 >>
Flags == { DefaultFlags, << "custom", 100 >> }
\* values the clock can return when the output document is created
Clock == {"t1", "t2"}

(* ------------------------------- paths -------------------------------- *)
\* A path is a string, modelled as the sequence of its character codes.
\* The k-th file of the directory: <<1>>, <<1,1>>, <<2>>, <<2,1>>, ...
PathOf(k) == IF k % 2 = 1 THEN << (k + 1) \div 2 >> ELSE << k \div 2, 1 >>

Paths == { PathOf(k) : k \in 1..MaxFiles }

\* Python's str "<": lexicographic on code points, a proper prefix is smaller.
RECURSIVE StrLess(_, _)
StrLess(a, b) ==
    IF b = << >> THEN FALSE
    ELSE IF a = << >> THEN TRUE
    ELSE IF Head(a) # Head(b) THEN Head(a) < Head(b)
    ELSE StrLess(Tail(a), Tail(b))

\* a manifest left in the order the walk returned it
ListSort_Unsorted(l) == l

\* list.sort() on a list of str
ListSort(l) == SortSeq(l, StrLess)

\* the orders in which os.walk may return the files of the directory
Walks == { w \in [1..Cardinality(Paths) -> Paths] :
             \A a, b \in 1..Cardinality(Paths) : a # b => w[a] # w[b] }

(* ----------------------------- documents ------------------------------ *)
SeqsUpTo(S, n) == UNION { [1..k -> S] : k \in 0..n }

\* What reading and parsing one file can yield.
\*   unreadable : open() or read() raises (OSError, UnicodeDecodeError)
\*   malformed  : minidom.parseString raises ExpatError
\*   nonelement : root element tag is FFSignatureFile, but the document's first
\*                child is not that element (a comment, processing instruction
\*                or doctype precedes it)
\*   notsig     : root element tag is not FFSignatureFile
\*   prolog_notsig : root element tag is not FFSignatureFile, and a comment,
\*                processing instruction or doctype precedes the root element
\*   nocoll     : root is FFSignatureFile but a collection element is missing
\*   sig        : FFSignatureFile with both collections; is = the ID attribute
\*                of each InternalSignature, ff = the InternalSignatureID text
\*                of each FileFormat, in document order
OtherDoc(k) == [kind |-> k, is |-> << >>, ff |-> << >>]

SigDocs == { [kind |-> "sig", is |-> a, ff |-> b] :
               a \in SeqsUpTo(OrigIds, MaxSigs), b \in SeqsUpTo(OrigIds, MaxSigs) }

Docs == SigDocs \cup
        { OtherDoc(k) : k \in {"unreadable", "malformed", "nonelement", "notsig",
                                "prolog_notsig", "nocoll"} }

(* ------------------------------- nodes -------------------------------- *)
\* text node data: str when parsed, int after line 147-149 assigns idx
StrData(s) == [t |-> "str", s |-> s, n |-> 0]
IntData(n) == [t |-> "int", s |-> "", n |-> n]

\* "%s" % data, as Text.writexml renders it
DataText(d) == IF d.t = "int" THEN ToString(d.n) ELSE d.s

IsNode(idx, k) == [file |-> idx, coll |-> "is", pos |-> k]
FfNode(idx, k) == [file |-> idx, coll |-> "ff", pos |-> k]

\* The elements minidom.parseString builds for a sig document.  rest stands
\* for everything of the element the merge never names (other attributes,
\* ByteSequence substructure), which differs from element to element.
ParsedNodes(idx, path, d) ==
    [ n \in { IsNode(idx, k) : k \in 1..Len(d.is) } \cup
            { FfNode(idx, k) : k \in 1..Len(d.ff) } |->
        IF n.coll = "is"
        THEN [ID |-> d.is[n.pos], PUID |-> "", ref |-> StrData(""),
              rest |-> <<path, "is", n.pos>>]
        ELSE [ID |-> d.ff[n.pos], PUID |-> "dev/" \o d.ff[n.pos],
              ref |-> StrData(d.ff[n.pos]),
              rest |-> <<path, "ff", n.pos>>] ]

(* ---------------------------- get_matches ----------------------------- *)
\* positions of the FileFormat elements whose first InternalSignatureID text
\* equals identifier, in document order (lines 104-110)
get_matches(heap, file_formats, identifier) ==
    SelectSeq(file_formats, LAMBDA n : DataText(heap[n].ref) = identifier)

(* ------------------------------ split_xml ----------------------------- *)
\* split_xml's first result: None, or a list of (InternalSignature, FileFormat)
None == [none |-> TRUE, list |-> << >>]
List(l) == [none |-> FALSE, list |-> l]

\* Python truthiness ("if not res", line 179): None and [] are falsy
Falsy(res) == res.none \/ res.list = << >>

\* lines 134-139: one SignatureFormatPairing per InternalSignature, in
\* document order; the assert fails at the first signature that does not
\* have exactly one match
\* line 137-139 for one InternalSignature, given its matches and the pairings
\* of the signatures after it
PairOrFail(item, matches, more) ==
    IF Len(matches) # 1 \/ more.failed THEN [failed |-> TRUE, pairings |-> << >>]
    ELSE [failed |-> FALSE,
          pairings |-> << [internal_signature |-> item, file_format |-> matches[1]] >>
                       \o more.pairings]

RECURSIVE MakePairings(_, _, _, _)
MakePairings(heap, internal_signatures, file_formats, k) ==
    IF k > Len(internal_signatures) THEN [failed |-> FALSE, pairings |-> << >>]
    ELSE PairOrFail(internal_signatures[k],
                    get_matches(heap, file_formats, heap[internal_signatures[k]].ID),
                    MakePairings(heap, internal_signatures, file_formats, k + 1))

\* RewritePair that sets the PUID on both elements of the pairing
RewritePair_PuidOnBoth(heap, pair, idx, prefix) ==
    LET h1 == [heap EXCEPT ![pair.internal_signature].ID = ToString(idx),
                           ![pair.internal_signature].PUID =
                               prefix \o "/" \o ToString(idx)]
    IN [h1 EXCEPT ![pair.file_format].ID   = ToString(idx),
                  ![pair.file_format].PUID = prefix \o "/" \o ToString(idx),
                  ![pair.file_format].ref  = IntData(idx)]

\* RewritePair without line 148: the PUID is left as the source had it
RewritePair_StalePuid(heap, pair, idx, prefix) ==
    LET h1 == [heap EXCEPT ![pair.internal_signature].ID = ToString(idx)]
    IN [h1 EXCEPT ![pair.file_format].ID   = ToString(idx),
                  ![pair.file_format].ref  = IntData(idx)]

\* lines 142-149: the rewrite of one pairing with the identifier idx
RewritePair(heap, pair, idx, prefix) ==
    LET h1 == [heap EXCEPT ![pair.internal_signature].ID = ToString(idx)]
    IN [h1 EXCEPT ![pair.file_format].ID   = ToString(idx),
                  ![pair.file_format].PUID = prefix \o "/" \o ToString(idx),
                  ![pair.file_format].ref  = IntData(idx)]

\* lines 140-151: the renumbering loop over pairings, from position k on
RECURSIVE Renumber(_, _, _, _, _, _)
Renumber(heap, pairings, k, identifiers, prefix, start_index) ==
    IF k > Len(pairings) THEN [heap |-> heap, identifiers |-> identifiers]
    ELSE LET idx == Len(identifiers) + start_index
         IN Renumber(RewritePair(heap, pairings[k], idx, prefix), pairings, k + 1,
                     Append(identifiers, idx), prefix, start_index)

\* lines 137 and 140-151, given the outcome p of the pairing loop
Renumbered(p, r) ==
    [raised |-> FALSE,
     res |-> List([k \in 1..Len(p.pairings) |->
                     << p.pairings[k].internal_signature, p.pairings[k].file_format >>]),
     identifiers |-> r.identifiers, heap |-> r.heap]

Paired(heap, identifiers, prefix, start_index, p) ==
    IF p.failed
    THEN [raised |-> TRUE, res |-> None, identifiers |-> identifiers, heap |-> heap]
    ELSE Renumbered(p, Renumber(heap, p.pairings, 1, identifiers, prefix, start_index))

\* split_xml as one loop: each InternalSignature is matched and its pairing
\* rewritten at once, so that later signatures are matched against rewritten
\* back-references
RECURSIVE Interleave(_, _, _, _, _, _, _, _)
InterleaveStep(heap, iss, ffs, k, identifiers, prefix, start_index, pairs, matches) ==
    IF Len(matches) # 1
    THEN [raised |-> TRUE, res |-> None, identifiers |-> identifiers, heap |-> heap]
    ELSE Interleave(RewritePair(heap, [internal_signature |-> iss[k],
                                       file_format |-> matches[1]],
                                Len(identifiers) + start_index, prefix),
                    iss, ffs, k + 1,
                    Append(identifiers, Len(identifiers) + start_index),
                    prefix, start_index, Append(pairs, << iss[k], matches[1] >>))

Interleave(heap, iss, ffs, k, identifiers, prefix, start_index, pairs) ==
    IF k > Len(iss)
    THEN [raised |-> FALSE, res |-> List(pairs), identifiers |-> identifiers,
          heap |-> heap]
    ELSE InterleaveStep(heap, iss, ffs, k, identifiers, prefix, start_index, pairs,
                        get_matches(heap, ffs, heap[iss[k]].ID))

split_xml_Interleaved(heap, fidx, d, identifiers, prefix, start_index) ==
    IF Len(d.is) # Len(d.ff)
    THEN [raised |-> FALSE, res |-> None, identifiers |-> << >>, heap |-> heap]
    ELSE Interleave(heap, [k \in 1..Len(d.is) |-> IsNode(fidx, k)],
                    [k \in 1..Len(d.ff) |-> FfNode(fidx, k)], 1,
                    identifiers, prefix, start_index, << >>)

\* split_xml without the comparison of lines 129-132
split_xml_NoPreCheck(heap, fidx, d, identifiers, prefix, start_index) ==
    Paired(heap, identifiers, prefix, start_index,
           MakePairings(heap, [k \in 1..Len(d.is) |-> IsNode(fidx, k)],
                        [k \in 1..Len(d.ff) |-> FfNode(fidx, k)], 1))

\* split_xml (lines 114-151) on the elements of the document parsed from
\* manifest entry fidx.  raised = TRUE when the assert of line 137 fails.
\* A count mismatch returns None and a NEW empty list (line 132).
split_xml(heap, fidx, d, identifiers, prefix, start_index) ==
    IF Len(d.is) # Len(d.ff)
    THEN [raised |-> FALSE, res |-> None, identifiers |-> << >>, heap |-> heap]
    ELSE Paired(heap, identifiers, prefix, start_index,
                MakePairings(heap, [k \in 1..Len(d.is) |-> IsNode(fidx, k)],
                             [k \in 1..Len(d.ff) |-> FfNode(fidx, k)], 1))

(* ---------------------------- process_paths --------------------------- *)
ErrorLog(path) == [level |-> "error", msg |-> "cannot process", arg |-> path]
InfoLog(m, n)  == [level |-> "info", msg |-> m, arg |-> << n >>]

\* a handler that also starts the identifier list afresh, as line 132 does
OnExpatError_Resets(s, path) ==
    [s EXCEPT !.log = Append(@, ErrorLog(path)), !.verdict = "malformed",
              !.identifiers = << >>]

\* lines 185-186: the handler of the ExpatError parseString raises
OnExpatError(s, path) ==
    [s EXCEPT !.log = Append(@, ErrorLog(path)), !.verdict = "malformed"]

\* The elements still referenced once the iteration is over: those of the
\* earlier files and those of the pairs appended to sig_list (line 183); the
\* rest of the parsed document is dropped with it.
Live(heap, kept, pairs) ==
    [n \in kept \cup { pairs[k][1] : k \in DOMAIN pairs }
               \cup { pairs[k][2] : k \in DOMAIN pairs } |-> heap[n]]

\* lines 172-184, given what split_xml returned or that it raised
AfterSplit(s, idx, path, r) ==
    IF r.raised
    THEN [s EXCEPT !.exc = "AssertionError", !.verdict = "assert"]
    ELSE IF Falsy(r.res)
    THEN [s EXCEPT !.identifiers = r.identifiers,
                   !.log = Append(@, ErrorLog(path)),
                   !.verdict = IF r.res.none THEN "count" ELSE "empty"]
    ELSE [s EXCEPT !.identifiers = r.identifiers,
                   !.heap = Live(r.heap, DOMAIN s.heap, r.res.list),
                   !.sig_list = @ \o r.res.list,
                   !.processed = Append(@, idx),
                   !.verdict = "accepted"]

\* One iteration of the loop of lines 162-186 on manifest entry idx (0-based,
\* as enumerate counts) whose file yields document d.  s is the loop state;
\* exc names the exception that leaves the loop uncaught ("" when none),
\* verdict the branch the iteration took.
LoopBody(s, idx, path, d, prefix, start_index) ==
    CASE d.kind = "unreadable" ->
           \* open() or read() raises; only ExpatError is caught (line 185)
           [s EXCEPT !.exc = "OSError", !.verdict = "unreadable"]
      [] d.kind = "malformed" ->
           OnExpatError(s, path)
      [] d.kind = "nonelement" ->
           \* doc.firstChild.tagName on a node that has no tagName (line 166)
           [s EXCEPT !.exc = "AttributeError", !.verdict = "nonelement"]
      [] d.kind = "notsig" ->
           [s EXCEPT !.verdict = "notsig"]
      [] d.kind = "prolog_notsig" ->
           \* line 166 reads doc.firstChild, not the root element
           [s EXCEPT !.exc = "AttributeError", !.verdict = "prolog_notsig"]
      [] d.kind = "nocoll" ->
           \* internal_sig_coll[0] on an empty NodeList (line 124)
           [s EXCEPT !.exc = "IndexError", !.verdict = "nocoll"]
      [] d.kind = "sig" ->
           AfterSplit(s, idx, path,
                      split_xml(ParsedNodes(idx, path, d) @@ s.heap, idx, d,
                                s.identifiers, prefix, start_index))

(* ------------------------- create_new_sig_file ------------------------ *)
\* Node.appendChild: a node that already has a parent is removed from it
\* first, so appending a node twice to one collection moves it to the end
AppendChild(children, n) == Append(SelectSeq(children, LAMBDA c : c # n), n)

RECURSIVE AppendAll(_, _, _)
AppendAll(children, items, k) ==
    IF k > Len(items) THEN children
    ELSE AppendAll(AppendChild(children, items[k]), items, k + 1)

\* the element as toprettyxml prints it
Printed(e) == [ID |-> e.ID, PUID |-> e.PUID,
               InternalSignatureID |-> DataText(e.ref), rest |-> e.rest]

\* lines 80-99: the document with the two collections, as printed
Document(heap, now, isc, ffc) ==
    [DateCreated |-> now,
     InternalSignatureCollection |-> [k \in 1..Len(isc) |-> Printed(heap[isc[k]])],
     FileFormatCollection        |-> [k \in 1..Len(ffc) |-> Printed(heap[ffc[k]])]]

\* lines 78-99: the document printed for sigs
create_new_sig_file(heap, sigs, now) ==
    Document(heap, now,
             AppendAll(<< >>, [k \in 1..Len(sigs) |-> sigs[k][1]], 1),
             AppendAll(<< >>, [k \in 1..Len(sigs) |-> sigs[k][2]], 1))

(* ------------------------------- state -------------------------------- *)
VARIABLES
    pc,            \* where the run is
    disk,          \* path -> the document its file holds, AnyDoc when not fixed
    prefix,        \* --prefix
    start_index,   \* --start-index
    manifest,      \* the list of paths (create_manifest's result, then sorted)
    idx,           \* number of manifest entries the loop has consumed
    sig_list,      \* accepted (InternalSignature, FileFormat) node pairs
    identifiers,   \* identifiers allocated so far
    processed,     \* manifest indexes of the accepted files
    heap,          \* the parsed elements that sig_list refers to
    log,           \* what the logger emitted
    exc,           \* the exception that ended the run, "" when none
    verdict,       \* the branch the last loop iteration took
    stdout         \* the printed document, NoOutput when nothing was printed

vars == << pc, disk, prefix, start_index, manifest, idx, sig_list, identifiers,
           processed, heap, log, exc, verdict, stdout >>

NoOutput == [DateCreated |-> "", InternalSignatureCollection |-> << >>,
             FileFormatCollection |-> << >>]

EmptyHeap == [n \in {} |-> 0]

InitRun ==
    /\ pc = "create_manifest"
    /\ manifest = << >>
    /\ idx = 0
    /\ sig_list = << >>
    /\ identifiers = << >>
    /\ processed = << >>
    /\ heap = EmptyHeap
    /\ log = << >>
    /\ exc = ""
    /\ verdict = ""
    /\ stdout = NoOutput

\* a file whose content is not fixed in advance: reading it can yield any document
AnyDoc == OtherDoc("any")

\* what open(item).read() followed by minidom.parseString can yield (lines 163-165)
ReadFile(path) == IF disk[path] = AnyDoc THEN Docs ELSE { disk[path] }

\* any file may hold any document
Init ==
    /\ disk = [p \in Paths |-> AnyDoc]
    /\ \E f \in Flags : prefix = f[1] /\ start_index = f[2]
    /\ InitRun

\* create_manifest (lines 194-202): os.walk lists the files in some order
create_manifest ==
    /\ pc = "create_manifest"
    /\ \E w \in Walks : manifest' = w
    /\ pc' = "process_paths"
    /\ UNCHANGED << disk, prefix, start_index, idx, sig_list, identifiers,
                    processed, heap, log, exc, verdict, stdout >>

\* process_paths, lines 158-161
SortManifest ==
    /\ pc = "process_paths"
    /\ sig_list' = << >>
    /\ identifiers' = << >>
    /\ processed' = << >>
    /\ manifest' = ListSort(manifest)
    /\ idx' = 0
    /\ pc' = "loop"
    /\ UNCHANGED << disk, prefix, start_index, heap, log, exc, verdict, stdout >>

LoopState == [sig_list |-> sig_list, identifiers |-> identifiers,
              processed |-> processed, heap |-> heap, log |-> log,
              exc |-> exc, verdict |-> verdict]

\* the loop state after an iteration; an uncaught exception ends the run
Becomes(r) ==
    /\ sig_list' = r.sig_list
    /\ identifiers' = r.identifiers
    /\ processed' = r.processed
    /\ heap' = r.heap
    /\ log' = r.log
    /\ exc' = r.exc
    /\ verdict' = r.verdict
    /\ pc' = IF r.exc # "" THEN "aborted" ELSE "loop"

\* process_paths, lines 162-186: one iteration
ProcessEntry ==
    /\ pc = "loop"
    /\ idx < Len(manifest)
    /\ \E d \in ReadFile(manifest[idx + 1]) :
         Becomes(LoopBody(LoopState, idx, manifest[idx + 1], d, prefix, start_index))
    /\ idx' = idx + 1
    /\ UNCHANGED << disk, prefix, start_index, manifest, stdout >>

\* line 187 testing the identifier list instead of sig_list
NothingAccepted_ByIdentifiers == Len(identifiers) = 0

\* line 187: no pairing was accepted
NothingAccepted == Len(sig_list) = 0

\* process_paths, lines 187-189
NoSignatureFiles ==
    /\ pc = "loop"
    /\ idx = Len(manifest)
    /\ NothingAccepted
    /\ log' = Append(log, InfoLog("no signature files were processed", 0))
    /\ pc' = "EmptyResult"
    /\ UNCHANGED << disk, prefix, start_index, manifest, idx, sig_list, identifiers,
                    processed, heap, exc, verdict, stdout >>

\* process_paths, lines 190-191, and create_new_sig_file
WriteSignatureFile ==
    /\ pc = "loop"
    /\ idx = Len(manifest)
    /\ ~NothingAccepted
    /\ log' = log \o << InfoLog("processed files", Len(processed)),
                        InfoLog("processing items for a signature file", Len(sig_list)) >>
    /\ \E now \in Clock : stdout' = create_new_sig_file(heap, sig_list, now)
    /\ pc' = "Merged"
    /\ UNCHANGED << disk, prefix, start_index, manifest, idx, sig_list, identifiers,
                    processed, heap, exc, verdict >>

Next ==
    \/ create_manifest
    \/ SortManifest
    \/ ProcessEntry
    \/ NoSignatureFiles
    \/ WriteSignatureFile

Spec == Init /\ [][Next]_vars

(* ------------------- the run as a function of the walk --------------- *)
\* documents with at most one element in each collection
DirDocs == { d \in Docs : Len(d.is) <= 1 /\ Len(d.ff) <= 1 }

\* a directory whose files do not change (each path holds one fixed
\* document), merged with the default flags
InitDir ==
    /\ disk \in [Paths -> DirDocs]
    /\ prefix = DefaultFlags[1] /\ start_index = DefaultFlags[2]
    /\ InitRun

SpecDir == InitDir /\ [][Next]_vars

\* the loop state of lines 158-160
InitLoop == [sig_list |-> << >>, identifiers |-> << >>, processed |-> << >>,
             heap |-> EmptyHeap, log |-> << >>, exc |-> "", verdict |-> ""]

\* the loop of lines 162-186 over the sorted manifest m, from entry k (0-based)
RECURSIVE RunLoop(_, _, _)
RunLoop(s, m, k) ==
    IF k = Len(m) \/ s.exc # "" THEN s
    ELSE RunLoop(LoopBody(s, k, m[k + 1], disk[m[k + 1]], prefix, start_index), m, k + 1)

\* lines 187-191: how the run ends and what it prints, the timestamp left out
Ending(s, doc) ==
    IF s.exc # "" THEN [pc |-> "aborted", isc |-> << >>, ffc |-> << >>]
    ELSE IF Len(s.sig_list) = 0 THEN [pc |-> "EmptyResult", isc |-> << >>, ffc |-> << >>]
    ELSE [pc |-> "Merged", isc |-> doc.InternalSignatureCollection,
          ffc |-> doc.FileFormatCollection]

Printing(s) == Ending(s, create_new_sig_file(s.heap, s.sig_list, ""))

\* process_paths (lines 154-191) on the list create_manifest returned
process_paths(walk) == Printing(RunLoop(InitLoop, ListSort(walk), 0))

(* ------------------------------ vocabulary ---------------------------- *)
\* the identifier allocator's next value (line 142)
NextId == Len(identifiers) + start_index

\* the step is a loop iteration (the only action that advances idx)
Iterated == pc = "loop" /\ idx' = idx + 1

\* the manifest entry of the last iteration
LastPath == manifest[idx]

ISC == stdout.InternalSignatureCollection
FFC == stdout.FileFormatCollection

\* number of times create_new_sig_file ran (it logs once per call, line 77)
SerializerCalls ==
    Cardinality({ k \in DOMAIN log : log[k].msg = "processing items for a signature file" })

(* -------------------------------- C1 ---------------------------------- *)
\* C1 (Uniqueness): in the merged output the i-th emitted InternalSignature
\* (0-based) carries the identifier start_index + i, so the identifiers are
\* pairwise distinct and contiguous from start_index.
C1_Uniqueness ==
    pc = "Merged" =>
        \A k \in DOMAIN ISC : ISC[k].ID = ToString(start_index + k - 1)

(* -------------------------------- C2 ---------------------------------- *)
\* C2 (Rejection isolation): an iteration that rejects its file (malformed,
\* count mismatch, or a signature without exactly one match) adds no pairing
\* and leaves the allocator's next value as it was, so the files after it get
\* the identifiers they would get without it.
C2_RejectionIsolation ==
    [][ (Iterated /\ verdict' \in {"malformed", "count", "assert"}) =>
            /\ sig_list' = sig_list
            /\ NextId' = NextId ]_vars

(* -------------------------------- C3 ---------------------------------- *)
\* C3 (Cross-reference consistency): every FileFormat of the merged output
\* refers to exactly one InternalSignature of the output, and that
\* InternalSignature has the FileFormat's own ID.
C3_CrossReference ==
    pc = "Merged" =>
        \A f \in DOMAIN FFC :
            /\ Cardinality({ k \in DOMAIN ISC : ISC[k].ID = FFC[f].InternalSignatureID }) = 1
            /\ FFC[f].ID = FFC[f].InternalSignatureID

(* -------------------------------- C4 ---------------------------------- *)
\* C4 (Pairing mismatch is local): when a signature of a file has zero or
\* several matching FileFormats, the file is rejected with an error log entry
\* naming it and the run continues.
C4_MismatchIsLocal ==
    verdict = "assert" =>
        /\ pc # "aborted"
        /\ log # << >> /\ log[Len(log)] = ErrorLog(LastPath)

(* -------------------------------- C5 ---------------------------------- *)
\* the source position of a printed element: << path, collection, position >>
Before(a, b) == StrLess(a[1], b[1]) \/ (a[1] = b[1] /\ a[3] < b[3])

\* C5 (Order preservation): the InternalSignatures of the merged output are in
\* ascending path order, then document order, and the FileFormat collection
\* lists the same pairings in the same order.
C5_OrderPreservation ==
    pc = "Merged" =>
        /\ \A j, k \in DOMAIN ISC : j < k => Before(ISC[j].rest, ISC[k].rest)
        /\ Len(FFC) = Len(sig_list)
        /\ \A k \in DOMAIN sig_list :
              /\ ISC[k].rest = heap[sig_list[k][1]].rest
              /\ FFC[k].rest = heap[sig_list[k][2]].rest

(* -------------------------------- C7 ---------------------------------- *)
\* C7 (One-to-one pairing): in an accepted document no FileFormat appears in
\* two pairings (so, the counts being equal, none is left unpaired).
C7_OneToOne ==
    \A j, k \in DOMAIN sig_list : j # k => sig_list[j][2] # sig_list[k][2]

(* -------------------------------- C9 ---------------------------------- *)
\* C9 (Read failures are non-fatal): a file that cannot be read is logged as
\* an error and skipped, and the run continues.
C9_ReadFailureNonFatal ==
    verdict = "unreadable" =>
        /\ pc # "aborted"
        /\ log # << >> /\ log[Len(log)] = ErrorLog(LastPath)

(* -------------------------------- C6 ---------------------------------- *)
\* C6 (Determinism): over an unchanged directory and the same flags, the way
\* the run ends and the document it prints (the timestamp apart) are the
\* same whatever the order in which the walk returned the paths.
C6_Determinism ==
    pc \in {"EmptyResult", "Merged", "aborted"} =>
        \A w \in Walks : process_paths(w) = [pc |-> pc, isc |-> ISC, ffc |-> FFC]

\* a run over a fixed directory that merged pairings of two different files
C6_Witness ==
    /\ pc = "Merged"
    /\ Len(processed) >= 2
    /\ \E j, k \in DOMAIN ISC : j < k /\ ISC[j].rest[1] # ISC[k].rest[1]

(* -------------------------------- C8 ---------------------------------- *)
\* C8 (Terminal states): a run ends in EmptyResult only with zero accepted
\* pairings (and then has the info message, no output and no serializer
\* call) and in Merged only with at least one (and then the serializer ran
\* exactly once, over every accepted pairing); once every manifest entry is
\* processed, the EmptyResult ending is open exactly when no pairing was
\* accepted.  Nothing is printed before the end.
C8_TerminalStates ==
    /\ (pc = "loop" /\ idx = Len(manifest)) =>
          ((ENABLED NoSignatureFiles) <=> (Len(sig_list) = 0))
    /\ pc = "loop" => (stdout = NoOutput /\ SerializerCalls = 0)
    /\ pc = "EmptyResult" =>
          /\ idx = Len(manifest) /\ Len(sig_list) = 0
          /\ stdout = NoOutput /\ SerializerCalls = 0
          /\ log[Len(log)] = InfoLog("no signature files were processed", 0)
    /\ pc = "Merged" =>
          /\ idx = Len(manifest) /\ Len(sig_list) >= 1
          /\ SerializerCalls = 1
          /\ Len(ISC) = Len(sig_list)

\* a run that reached Merged with two accepted files and a rejected one
C8_Witness ==
    /\ pc = "Merged"
    /\ Len(processed) >= 2
    /\ Len(processed) < Len(manifest)

(* -------------------------------- C10 --------------------------------- *)
\* C10 (Malformed XML is skipped locally): an iteration whose file is not
\* well-formed XML appends one error log entry naming the file, leaves the
\* accepted pairings and the identifier allocator as they were, and the loop
\* goes on with the next entry.
C10_MalformedSkipped ==
    [][ (Iterated /\ verdict' = "malformed") =>
            /\ log' = Append(log, ErrorLog(manifest[idx + 1]))
            /\ sig_list' = sig_list
            /\ identifiers' = identifiers
            /\ processed' = processed
            /\ heap' = heap
            /\ pc' = "loop" ]_vars

\* a malformed file met after a file was accepted and before the last entry
C10_Witness ==
    /\ verdict = "malformed"
    /\ pc = "loop"
    /\ Len(sig_list) >= 1 /\ Len(identifiers) >= 1
    /\ idx < Len(manifest)

(* -------------------------------- C11 --------------------------------- *)
\* C11 (Non-signature documents are skipped silently): an iteration on a
\* well-formed document whose root element is not FFSignatureFile adds no
\* pairing and no log entry, leaves the identifier allocator and the accepted
\* files as they were, and the loop goes on with the next entry.
C11_NotSignatureSkipped ==
    [][ (Iterated /\ verdict' \in {"notsig", "prolog_notsig"}) =>
            /\ sig_list' = sig_list
            /\ log' = log
            /\ identifiers' = identifiers
            /\ processed' = processed
            /\ pc' = "loop" ]_vars

(* -------------------------------- C12 --------------------------------- *)
\* C12 (Public identifier shape): every FileFormat of the merged output has
\* the PUID <prefix>/<ID>, prefix being the run's --prefix and ID the
\* FileFormat's own ID as printed.
C12_PuidShape ==
    pc = "Merged" =>
        \A k \in DOMAIN FFC : FFC[k].PUID = prefix \o "/" \o FFC[k].ID

\* a merged output of a run with a non-default prefix and start index that
\* holds FileFormats of two files
C12_Witness ==
    /\ pc = "Merged"
    /\ prefix = "custom"
    /\ Len(FFC) >= 2
    /\ \E j, k \in DOMAIN FFC : FFC[j].rest[1] # FFC[k].rest[1]

(* -------------------- one file among plain ones ---------------------- *)
\* a signature file with one InternalSignature and its FileFormat
OnePairDoc == [kind |-> "sig", is |-> << "1" >>, ff |-> << "1" >>]

\* a directory whose files do not change: one of them holds any document;
\* the others are all plain signature files, or all not signature files
InitOne ==
    /\ \E p \in Paths, d \in Docs, o \in {OnePairDoc, OtherDoc("notsig")} :
           disk = [q \in Paths |-> IF q = p THEN d ELSE o]
    /\ \E f \in Flags : prefix = f[1] /\ start_index = f[2]
    /\ InitRun

SpecOne == InitOne /\ [][Next]_vars

\* the document of manifest entry f (0-based)
SourceOf(f) == disk[manifest[f + 1]]

\* the FileFormats of document d (positions) whose InternalSignatureID, as the
\* file has it, is the ID of the k-th InternalSignature
SourceMatches(d, k) == { j \in DOMAIN d.ff : d.ff[j] = d.is[k] }

\* what lines 131-137 ask of a document, read on the file's own values
SourceValid(d) ==
    /\ d.kind = "sig"
    /\ Len(d.is) = Len(d.ff)
    /\ \A k \in DOMAIN d.is : Cardinality(SourceMatches(d, k)) = 1

\* the pairings of manifest entry f, whose document is d, join each signature
\* to its one match in d, and f was accepted exactly when d is valid and has
\* a signature
PairOnSource(f, d) ==
    /\ \A k \in DOMAIN sig_list :
           sig_list[k][1].file = f =>
               /\ sig_list[k][2].file = f
               /\ SourceMatches(d, sig_list[k][1].pos) = { sig_list[k][2].pos }
    /\ (\E k \in DOMAIN processed : processed[k] = f)
           <=> (SourceValid(d) /\ Len(d.is) >= 1)

(* -------------------------------- C13 --------------------------------- *)
\* C13 (Validation precedes allocation): every pairing a file contributes
\* joins an InternalSignature to the one FileFormat whose back-reference IN
\* THE FILE is that signature's ID; a file is accepted exactly when all its
\* signatures have one such FileFormat (and it has a signature at all), so no
\* rewrite of an earlier pairing changes what a later signature is matched to;
\* and no identifier is allocated beyond the accepted pairings.
C13_ValidationPrecedesAllocation ==
    /\ \A f \in 0..(idx - 1) : PairOnSource(f, SourceOf(f))
    /\ Len(identifiers) <= Len(sig_list)

\* the first file has two signatures in the order 2, 1 and was accepted with
\* start index 1: its first pairing was given identifier 1, the original ID
\* of its second signature
C13_Witness ==
    /\ pc = "Merged"
    /\ start_index = 1
    /\ SourceOf(0).is = << "2", "1" >> /\ SourceOf(0).ff = << "2", "1" >>
    /\ processed[1] = 0
    /\ Len(processed) = Len(manifest)

\* lines 129-131 on the file's own values
CountMismatch(d) == d.kind = "sig" /\ Len(d.is) # Len(d.ff)

\* nothing of manifest entry f is among the pairings or in the output
NothingFrom(f) ==
    /\ \A k \in DOMAIN sig_list : sig_list[k][1].file # f /\ sig_list[k][2].file # f
    /\ pc = "Merged" =>
           /\ \A k \in DOMAIN ISC : ISC[k].rest[1] # manifest[f + 1]
           /\ \A k \in DOMAIN FFC : FFC[k].rest[1] # manifest[f + 1]

(* -------------------------------- C14 --------------------------------- *)
\* C14 (Count pre-check): a document whose numbers of InternalSignatures and
\* of FileFormats differ is rejected as a whole: the iteration on it does not
\* end the run with a failed match, an error entry naming the file is logged,
\* and none of its elements is among the pairings or in the output.
C14_CountPreCheck ==
    \A f \in 0..(idx - 1) :
        CountMismatch(SourceOf(f)) =>
            /\ ~(pc = "aborted" /\ f = idx - 1)
            /\ \E k \in DOMAIN log : log[k] = ErrorLog(manifest[f + 1])
            /\ NothingFrom(f)

\* a merged output of a directory where one document has one InternalSignature
\* and two FileFormats, the first of which refers to the signature
C14_Witness ==
    /\ pc = "Merged"
    /\ Len(FFC) >= 1
    /\ \E f \in 0..(idx - 1) :
           SourceOf(f).is = << "1" >> /\ SourceOf(f).ff = << "1", "2" >>

\* what ParsedNodes gave element n apart from the four fields lines 142-149
\* assign: the rest of the element, and for an InternalSignature the absence
\* of a PUID and of a back-reference
AsInSource(n, e) ==
    /\ e.rest = << manifest[n.file + 1], n.coll, n.pos >>
    /\ n.coll = "is" => e.PUID = "" /\ e.InternalSignatureID = ""

(* -------------------------------- C15 --------------------------------- *)
\* C15 (Renumbering frame): apart from the InternalSignature's ID and the
\* FileFormat's ID, PUID and InternalSignatureID, every element kept by the
\* run, and every element of the merged output, is as its source document
\* had it.
C15_RenumberingFrame ==
    /\ \A n \in DOMAIN heap : AsInSource(n, Printed(heap[n]))
    /\ pc = "Merged" =>
           /\ Len(ISC) = Len(sig_list)
           /\ \A k \in DOMAIN ISC : AsInSource(sig_list[k][1], ISC[k])
           /\ \A k \in DOMAIN FFC :
                  \E j \in DOMAIN sig_list : AsInSource(sig_list[j][2], FFC[k])

\* a merged output numbered from 100 (so every ID in it was rewritten) that
\* holds the second InternalSignature of some file
C15_Witness ==
    /\ pc = "Merged"
    /\ start_index = 100
    /\ \E k \in DOMAIN ISC : ISC[k].rest[3] = 2 /\ ISC[k].ID = ToString(99 + k)

\* the signatures of d are matched to pairwise different FileFormats
SourceOneToOne(d) ==
    \A j, k \in DOMAIN d.is : j # k => SourceMatches(d, j) # SourceMatches(d, k)

(* -------------------------------- C16 --------------------------------- *)
\* C16 (Error diagnostics only for MalformedDocument and PairingMismatch):
\* the iteration on a FFSignatureFile document whose counts are equal and
\* whose signatures all match one-to-one, the document with two empty
\* collections included, logs no error entry, and when it adds no pairing it
\* leaves the identifier allocator as it was.
C16_NoErrorForValid ==
    [][ (Iterated /\ SourceValid(SourceOf(idx)) /\ SourceOneToOne(SourceOf(idx))) =>
            /\ \A k \in DOMAIN log' : k \in DOMAIN log \/ log'[k].level # "error"
            /\ sig_list' = sig_list => identifiers' = identifiers ]_vars

====
